---- MODULE Spec2Model ----
(***************************************************************************)
(* Contact directory of homework/goit-pycore-hw-06..08: validated fields,  *)
(* Record, AddressBook, the upcoming-birthdays query and pickle            *)
(* persistence.  A Python str is a sequence of one-character strings, a    *)
(* datetime.date is a record [y, m, d], a dict is the sequence of its      *)
(* values in insertion order.                                              *)
(***************************************************************************)
EXTENDS Integers, Sequences, FiniteSets, TLC

VARIABLES data, file, last

vars == <<data, file, last>>

\* ------------------------------------------------------------ bounds
\* Largest phone list a record is grown to by add_phone.
MaxPhones == 2

\* ------------------------------------------------------------ characters
\* The characters of the input strings.  "SUP2" stands for the one character
\* U+00B2 (superscript two) and "AR1" for U+0661 (Arabic-Indic digit one).
AsciiDigits == {"0", "1", "2", "3", "4", "5", "6", "7", "8", "9"}

\* Unicode category Nd: what str.isdecimal and the regex class \d accept.
DecimalChars == AsciiDigits \cup {"AR1"}

\* str.isdigit accepts Numeric_Type=Decimal and Numeric_Type=Digit.
DigitChars == DecimalChars \cup {"SUP2"}

\* str.isdigit(): non-empty and every character a digit character.
isdigit(s) == Len(s) > 0 /\ \A i \in 1..Len(s) : s[i] \in DigitChars

PhoneLen == 10

\* The outcome of a call: the exception it raised, "None" when it returned.
NoError == "None"

\* Phone._validate, mutated: only the length is checked.
Phone_validate_LengthOnly(value) ==
    IF Len(value) # PhoneLen THEN "ValueError" ELSE NoError

\* Phone._validate(value): the exception raised, if any.
Phone_validate(value) ==
    IF ~isdigit(value) \/ Len(value) # PhoneLen THEN "ValueError" ELSE NoError

\* Phone(value): [err, value]; Field.__init__ stores the string as given.
Phone(value) ==
    [err |-> Phone_validate(value), value |-> value]

\* ------------------------------------------------------------ dates
\* datetime.date as [y, m, d]; None (no birthday) is the date of year 0,
\* which datetime cannot hold (MINYEAR = 1).
NoBirthday == [y |-> 0, m |-> 0, d |-> 0]

IsLeap(y) == y % 4 = 0 /\ (y % 100 # 0 \/ y % 400 = 0)

DaysInMonth(y, m) ==
    IF m = 2 THEN (IF IsLeap(y) THEN 29 ELSE 28)
    ELSE IF m \in {4, 6, 9, 11} THEN 30 ELSE 31

\* datetime's check of the fields of a date.
ValidDate(y, m, d) ==
    /\ y \in 1..9999
    /\ m \in 1..12
    /\ d >= 1 /\ d <= DaysInMonth(y, m)

RECURSIVE DaysBeforeMonth(_, _)
DaysBeforeMonth(y, m) ==
    IF m = 1 THEN 0 ELSE DaysBeforeMonth(y, m - 1) + DaysInMonth(y, m - 1)

\* date.toordinal(): 1 for 0001-01-01.
ToOrdinal(dt) ==
    LET p == dt.y - 1
    IN  p * 365 + (p \div 4) - (p \div 100) + (p \div 400)
        + DaysBeforeMonth(dt.y, dt.m) + dt.d

\* date.weekday(): Monday = 0 .. Sunday = 6.
Weekday(dt) == (ToOrdinal(dt) + 6) % 7

NextDay(dt) ==
    IF dt.d < DaysInMonth(dt.y, dt.m) THEN [dt EXCEPT !.d = @ + 1]
    ELSE IF dt.m < 12 THEN [y |-> dt.y, m |-> dt.m + 1, d |-> 1]
    ELSE [y |-> dt.y + 1, m |-> 1, d |-> 1]

\* date + timedelta(days=n), n >= 0.
RECURSIVE AddDays(_, _)
AddDays(dt, n) == IF n = 0 THEN dt ELSE AddDays(NextDay(dt), n - 1)

\* a <= b on dates.
DateLeq(a, b) ==
    \/ a.y < b.y
    \/ a.y = b.y /\ a.m < b.m
    \/ a.y = b.y /\ a.m = b.m /\ a.d <= b.d

\* ------------------------------------------------------------ Birthday
NonZeroAscii == AsciiDigits \ {"0"}

\* int() of one decimal character.
DigitVal(c) ==
    CASE c = "0" -> 0 [] c = "1" -> 1 [] c = "2" -> 2 [] c = "3" -> 3
      [] c = "4" -> 4 [] c = "5" -> 5 [] c = "6" -> 6 [] c = "7" -> 7
      [] c = "8" -> 8 [] c = "9" -> 9 [] c = "AR1" -> 1 [] OTHER -> 0

\* int(s) of a field the format's pattern matched (int ignores a leading blank).
RECURSIVE IntOf(_)
IntOf(s) ==
    IF Len(s) = 0 THEN 0
    ELSE IntOf(SubSeq(s, 1, Len(s) - 1)) * 10 + DigitVal(s[Len(s)])

\* strptime's pattern for %d: 3[0-1]|[1-2]\d|0[1-9]|[1-9]| [1-9]
MatchesDay(s) ==
    \/ Len(s) = 2 /\ \/ s[1] = "3" /\ s[2] \in {"0", "1"}
                     \/ s[1] \in {"1", "2"} /\ s[2] \in DecimalChars
                     \/ s[1] = "0" /\ s[2] \in NonZeroAscii
                     \/ s[1] = " " /\ s[2] \in NonZeroAscii
    \/ Len(s) = 1 /\ s[1] \in NonZeroAscii

\* strptime's pattern for %m: 1[0-2]|0[1-9]|[1-9]
MatchesMonth(s) ==
    \/ Len(s) = 2 /\ \/ s[1] = "1" /\ s[2] \in {"0", "1", "2"}
                     \/ s[1] = "0" /\ s[2] \in NonZeroAscii
    \/ Len(s) = 1 /\ s[1] \in NonZeroAscii

\* strptime's pattern for %Y: \d\d\d\d
MatchesYear(s) == Len(s) = 4 /\ \A i \in 1..4 : s[i] \in DecimalChars

\* datetime.strptime(value, "%d.%m.%Y").date(): [err, value].  The fields
\* hold no "." so the pattern matches the whole string in one way at most.
strptime(value) ==
    LET dots == {i \in 1..Len(value) : value[i] = "."}
        bad  == [err |-> "ValueError", value |-> NoBirthday]
    IN  IF Cardinality(dots) # 2 THEN bad
        ELSE LET i1 == CHOOSE i \in dots : \A j \in dots : i <= j
                 i2 == CHOOSE i \in dots : \A j \in dots : j <= i
                 ds == SubSeq(value, 1, i1 - 1)
                 ms == SubSeq(value, i1 + 1, i2 - 1)
                 ys == SubSeq(value, i2 + 1, Len(value))
             IN  IF ~(MatchesDay(ds) /\ MatchesMonth(ms) /\ MatchesYear(ys)) THEN bad
                 ELSE IF ~ValidDate(IntOf(ys), IntOf(ms), IntOf(ds)) THEN bad
                 ELSE [err |-> NoError,
                       value |-> [y |-> IntOf(ys), m |-> IntOf(ms), d |-> IntOf(ds)]]

\* Birthday(value): [err, value]; every ValueError of strptime is raised again.
Birthday(value) == strptime(value)

DigitChar(n) ==
    CASE n = 0 -> "0" [] n = 1 -> "1" [] n = 2 -> "2" [] n = 3 -> "3"
      [] n = 4 -> "4" [] n = 5 -> "5" [] n = 6 -> "6" [] n = 7 -> "7"
      [] n = 8 -> "8" [] OTHER -> "9"

\* The decimal digits of n >= 0, without padding.
RECURSIVE Decimal(_)
Decimal(n) ==
    IF n < 10 THEN <<DigitChar(n)>>
    ELSE Append(Decimal(n \div 10), DigitChar(n % 10))

\* %d and %m: two digits, zero padded.
TwoDigits(n) == <<DigitChar(n \div 10), DigitChar(n % 10)>>

\* date.strftime("%d.%m.%Y"); the C library's %Y does not pad the year.
strftime(dt) ==
    TwoDigits(dt.d) \o <<".">> \o TwoDigits(dt.m) \o <<".">> \o Decimal(dt.y)

\* %A of strftime.
DayName(dt) ==
    LET w == Weekday(dt)
    IN  CASE w = 0 -> "Monday" [] w = 1 -> "Tuesday" [] w = 2 -> "Wednesday"
          [] w = 3 -> "Thursday" [] w = 4 -> "Friday" [] w = 5 -> "Saturday"
          [] OTHER -> "Sunday"

\* ------------------------------------------------------------ Record
\* Record(contact_name): no phones, no birthday.
Record(contact_name) ==
    [name |-> contact_name, phones |-> <<>>, birthday |-> NoBirthday]

\* Record.find_phone: the place in self.phones of the first Phone whose value
\* is phone, 0 for None.  Each element of the list is an object of its own,
\* so the object found is known by its place.
find_phone(phones, phone) ==
    IF \E i \in 1..Len(phones) : phones[i] = phone
    THEN CHOOSE i \in 1..Len(phones) :
            /\ phones[i] = phone
            /\ \A j \in 1..(i - 1) : phones[j] # phone
    ELSE 0

\* list.remove(obj) of the object at place i: Phone defines no __eq__, so the
\* first element equal to obj is obj itself.
list_remove(phones, i) ==
    SubSeq(phones, 1, i - 1) \o SubSeq(phones, i + 1, Len(phones))

\* Record.add_phone: [err, rec].
add_phone(rec, phone) ==
    IF Phone(phone).err # NoError THEN [err |-> Phone(phone).err, rec |-> rec]
    ELSE [err |-> NoError,
          rec |-> [rec EXCEPT !.phones = Append(@, Phone(phone).value)]]

\* Record.remove_phone, mutated: every phone equal to the value is removed.
remove_phone_All(rec, phone) ==
    [err |-> NoError,
     rec |-> [rec EXCEPT !.phones = SelectSeq(@, LAMBDA p : p # phone)]]

\* Record.remove_phone: [err, rec].
remove_phone(rec, phone) ==
    LET phone_obj == find_phone(rec.phones, phone)
    IN  [err |-> NoError,
         rec |-> IF phone_obj # 0
                 THEN [rec EXCEPT !.phones = list_remove(@, phone_obj)]
                 ELSE rec]

\* Record.edit_phone, mutated: the new phone takes the old one's place.
edit_phone_InPlace(rec, old_phone, new_phone) ==
    LET phone_obj == find_phone(rec.phones, old_phone)
    IN  IF phone_obj = 0 THEN [err |-> NoError, rec |-> rec]
        ELSE IF Phone(new_phone).err # NoError
        THEN [err |-> Phone(new_phone).err,
              rec |-> [rec EXCEPT !.phones = list_remove(@, phone_obj)]]
        ELSE [err |-> NoError,
              rec |-> [rec EXCEPT !.phones[phone_obj] = Phone(new_phone).value]]

\* Record.edit_phone, mutated: the old phone is not removed.
edit_phone_KeepOld(rec, old_phone, new_phone) ==
    LET phone_obj == find_phone(rec.phones, old_phone)
    IN  IF phone_obj = 0 THEN [err |-> NoError, rec |-> rec]
        ELSE IF Phone(new_phone).err # NoError
        THEN [err |-> Phone(new_phone).err, rec |-> rec]
        ELSE [err |-> NoError,
              rec |-> [rec EXCEPT !.phones = Append(@, Phone(new_phone).value)]]

\* Record.edit_phone: [err, rec].  The old phone is removed before the new
\* one is constructed, and the new one is constructed only when the old one
\* was found.
edit_phone(rec, old_phone, new_phone) ==
    LET phone_obj == find_phone(rec.phones, old_phone)
    IN  IF phone_obj = 0 THEN [err |-> NoError, rec |-> rec]
        ELSE LET removed == [rec EXCEPT !.phones = list_remove(@, phone_obj)]
             IN  IF Phone(new_phone).err # NoError
                 THEN [err |-> Phone(new_phone).err, rec |-> removed]
                 ELSE [err |-> NoError,
                       rec |-> [removed EXCEPT
                                  !.phones = Append(@, Phone(new_phone).value)]]

\* Record.add_birthday: [err, rec].
add_birthday(rec, birthday) ==
    IF Birthday(birthday).err # NoError
    THEN [err |-> Birthday(birthday).err, rec |-> rec]
    ELSE [err |-> NoError, rec |-> [rec EXCEPT !.birthday = Birthday(birthday).value]]

\* ------------------------------------------------------------ AddressBook
\* An entry of the dict is the record with the key it is stored under.
\* The place of key k in the dict, 0 when absent.
KeyIndex(d, k) ==
    IF \E i \in 1..Len(d) : d[i].key = k
    THEN CHOOSE i \in 1..Len(d) : d[i].key = k
    ELSE 0

Keys(d) == {d[i].key : i \in 1..Len(d)}

\* The entry of a record stored under key k.
Entry(k, record) ==
    [key |-> k, name |-> record.name, phones |-> record.phones,
     birthday |-> record.birthday]

\* AddressBook.add_record, mutated: the phones and the birthday of a record
\* already stored under the name are kept.
add_record_Merge(d, record) ==
    IF KeyIndex(d, record.name) # 0
    THEN [d EXCEPT ![KeyIndex(d, record.name)] =
            [@ EXCEPT !.phones = @ \o record.phones,
                      !.birthday = IF record.birthday = NoBirthday
                                   THEN @ ELSE record.birthday]]
    ELSE Append(d, Entry(record.name, record))

\* AddressBook.add_record, mutated: the record is appended to a list, with
\* no look at the names stored.
add_record_Append(d, record) == Append(d, Entry(record.name, record))

\* AddressBook.add_record: self.data[record.name.value] = record.  A key
\* already present keeps its place in the dict's order.
add_record(d, record) ==
    IF KeyIndex(d, record.name) # 0
    THEN [d EXCEPT ![KeyIndex(d, record.name)] = Entry(record.name, record)]
    ELSE Append(d, Entry(record.name, record))

\* AddressBook.find: the place of the record, 0 for None.
find(d, contact_name) == KeyIndex(d, contact_name)

\* AddressBook.delete, mutated: with the name absent the last entry goes.
delete_Pop(d, contact_name) ==
    IF contact_name \in Keys(d)
    THEN SubSeq(d, 1, KeyIndex(d, contact_name) - 1)
         \o SubSeq(d, KeyIndex(d, contact_name) + 1, Len(d))
    ELSE SubSeq(d, 1, Len(d) - 1)

\* AddressBook.delete.
delete(d, contact_name) ==
    IF contact_name \in Keys(d)
    THEN SubSeq(d, 1, KeyIndex(d, contact_name) - 1)
         \o SubSeq(d, KeyIndex(d, contact_name) + 1, Len(d))
    ELSE d

WeekDays == 7

\* The day of congratulation, mutated: only Sunday is moved.
celebration_day_SundayOnly(birthday) ==
    IF Weekday(birthday) > 5
    THEN AddDays(birthday, 7 - Weekday(birthday))
    ELSE birthday

\* The day of congratulation: a Saturday or Sunday moves to the Monday after.
celebration_day(birthday) ==
    IF Weekday(birthday) >= 5
    THEN AddDays(birthday, 7 - Weekday(birthday))
    ELSE birthday

\* The loop of get_upcoming_birthdays from record i on, upcoming being the
\* list so far.  date.replace(year=...) raises ValueError for a date the year
\* does not have, which ends the call.  An entry stands for the string
\* "<name>: <%A> <%d.%m.%Y>".
RECURSIVE upcoming_loop(_, _, _, _)
upcoming_loop(d, i, today, upcoming) ==
    IF i > Len(d) THEN [err |-> NoError, out |-> upcoming]
    ELSE IF d[i].birthday = NoBirthday THEN upcoming_loop(d, i + 1, today, upcoming)
    ELSE IF ~ValidDate(today.y, d[i].birthday.m, d[i].birthday.d)
    THEN [err |-> "ValueError", out |-> <<>>]
    ELSE LET birthday == [d[i].birthday EXCEPT !.y = today.y]
             one_week_later == AddDays(today, WeekDays)
         IN  IF DateLeq(today, birthday) /\ DateLeq(birthday, one_week_later)
             THEN upcoming_loop(d, i + 1, today,
                    Append(upcoming,
                           [name |-> d[i].name,
                            day  |-> DayName(celebration_day(birthday)),
                            date |-> strftime(celebration_day(birthday))]))
             ELSE upcoming_loop(d, i + 1, today, upcoming)

\* AddressBook.get_upcoming_birthdays with datetime.today().date() = today.
\* get_upcoming_birthdays, mutated: the list is returned last entry first.
get_upcoming_birthdays_Reversed(d, today) ==
    LET r == upcoming_loop(d, 1, today, <<>>)
    IN  [err |-> r.err,
         out |-> [j \in 1..Len(r.out) |-> r.out[Len(r.out) + 1 - j]]]

get_upcoming_birthdays(d, today) == upcoming_loop(d, 1, today, <<>>)

\* ------------------------------------------------------------ persistence
\* The bytes pickle writes for a date: the year in two bytes, month, day.
DateBytes(dt) ==
    IF dt = NoBirthday THEN <<>>
    ELSE <<dt.y \div 256, dt.y % 256, dt.m, dt.d>>

BytesDate(b) ==
    IF b = <<>> THEN NoBirthday
    ELSE [y |-> b[1] * 256 + b[2], m |-> b[3], d |-> b[4]]

\* pickle.dump, mutated: a date's year is written in one byte.
pickle_dump_ShortYear(book) ==
    [i \in 1..Len(book) |->
        <<book[i].key, book[i].name, book[i].phones,
          IF book[i].birthday = NoBirthday THEN <<>>
          ELSE <<0, book[i].birthday.y % 256, book[i].birthday.m, book[i].birthday.d>> >>]

\* pickle.dump(book, f): the whole book, entry by entry in the dict's order.
pickle_dump(book) ==
    [i \in 1..Len(book) |->
        <<book[i].key, book[i].name, book[i].phones, DateBytes(book[i].birthday)>>]

\* pickle.load(f).
pickle_load(bytes) ==
    [i \in 1..Len(bytes) |->
        [key |-> bytes[i][1], name |-> bytes[i][2], phones |-> bytes[i][3],
         birthday |-> BytesDate(bytes[i][4])]]

\* ------------------------------------------------------------ handlers
\* What input_error returns for a ValueError.
InvalidData == "Please enter valid data."

\* add_contact(args, book) under input_error: [ret, book].  Unpacking fewer
\* than two arguments raises ValueError; the record of a new name is stored
\* before add_phone is called on it.
add_contact(args, book) ==
    IF Len(args) < 2 THEN [ret |-> InvalidData, book |-> book]
    ELSE LET name == args[1]
             phone == args[2]
             added == IF find(book, name) = 0
                      THEN add_record(book, Record(name)) ELSE book
             message == IF find(book, name) = 0
                        THEN "Contact added." ELSE "Contact updated."
             r == add_phone(added[find(added, name)], phone)
         IN  IF phone = <<>> THEN [ret |-> message, book |-> added]
             ELSE IF r.err # NoError THEN [ret |-> InvalidData, book |-> added]
             ELSE [ret |-> message,
                   book |-> [added EXCEPT ![find(added, name)] = r.rec]]

\* ------------------------------------------------------------ the file
\* The file addressbook.pkl: absent, or holding what was last written.
NoFile == [exists |-> FALSE, bytes |-> <<>>]

\* save_data: the file after the call.
save_data(book) == [exists |-> TRUE, bytes |-> pickle_dump(book)]

\* load_data, mutated: the file is opened without the os.path.exists test.
load_data_NoExistsTest(f) ==
    IF f.exists THEN [err |-> NoError, book |-> pickle_load(f.bytes)]
    ELSE [err |-> "FileNotFoundError", book |-> <<>>]

\* load_data: [err, book]; AddressBook() when the file does not exist.
load_data(f) ==
    IF f.exists THEN [err |-> NoError, book |-> pickle_load(f.bytes)]
    ELSE [err |-> NoError, book |-> <<>>]

\* ------------------------------------------------------------ inputs
Names == {"Ann", "Bob"}

P1 == <<"1", "2", "3", "4", "5", "6", "7", "8", "9", "0">>
P2 == <<"9", "9", "9", "9", "9", "9", "9", "9", "9", "9">>
PShort == <<"1", "2", "3", "4", "5", "6", "7", "8", "9">>
PLong == <<"1", "2", "3", "4", "5", "6", "7", "8", "9", "0", "1">>
PAlpha == <<"1", "2", "3", "4", "5", "a", "b", "c", "d", "e">>
PDashed == <<"1", "2", "3", "-", "4", "5", "6", "-", "7", "8">>
PEmpty == <<>>
PSuperscript == [i \in 1..PhoneLen |-> "SUP2"]
PArabic == [i \in 1..PhoneLen |-> "AR1"]

\* The strings handed to the Phone constructor alone.
PhoneInputs == {P1, P2, PShort, PLong, PAlpha, PDashed, PEmpty, PSuperscript, PArabic}

\* The strings handed to the phone methods of a record.
RecordPhoneInputs == {P1, P2, PShort}

B_0101 == <<"0", "1", ".", "0", "1", ".", "1", "9", "9", "2">>
B_2902 == <<"2", "9", ".", "0", "2", ".", "2", "0", "0", "0">>
B_0806 == <<"0", "8", ".", "0", "6", ".", "1", "9", "9", "0">>
B_0906 == <<"0", "9", ".", "0", "6", ".", "1", "9", "8", "5">>
B_3112 == <<"3", "1", ".", "1", "2", ".", "1", "9", "9", "9">>
B_Unpadded == <<"5", ".", "6", ".", "1", "9", "9", "0">>
B_Iso == <<"1", "9", "9", "0", "-", "0", "6", "-", "0", "5">>
B_3002 == <<"3", "0", ".", "0", "2", ".", "2", "0", "0", "0">>

\* The strings handed to add_birthday.
BirthdayInputs == {B_0101, B_2902, B_0806, B_0906, B_3112, B_Unpadded, B_Iso, B_3002}

B_Padded == <<"0", "5", ".", "0", "6", ".", "1", "9", "9", "0">>
B_Blank == <<" ", "5", ".", "0", "6", ".", "1", "9", "9", "0">>
B_Year99 == <<"0", "1", ".", "0", "1", ".", "0", "0", "9", "9">>

\* The strings handed to the Birthday constructor alone.
BirthdayTexts == BirthdayInputs \cup {B_Padded, B_Blank, B_Year99}

\* The days from dt on, n of them.
DateRange(dt, n) == {AddDays(dt, k) : k \in 0..(n - 1)}

\* The days taken for datetime.today(): the turn of the year 2023/24, the end
\* of February of a leap and of a common year, and the first days of June 2024.
TodayInputs ==
    DateRange([y |-> 2023, m |-> 12, d |-> 22], 12)
    \cup DateRange([y |-> 2024, m |-> 2, d |-> 20], 11)
    \cup DateRange([y |-> 2023, m |-> 2, d |-> 20], 10)
    \cup DateRange([y |-> 2024, m |-> 5, d |-> 28], 13)

\* ------------------------------------------------------------ state
\* data: the AddressBook's dict, its records in insertion order.
\* file: addressbook.pkl.
\* last: the last call, its arguments, the exception it raised, what it
\*       returned and the dict before it.
NoArg == <<>>

Call(op, name, old, new, err, today, out) ==
    [op |-> op, name |-> name, old |-> old, new |-> new, err |-> err,
     today |-> today, out |-> out, pre |-> data]

Init ==
    /\ data = <<>>
    /\ file = NoFile
    /\ last = [op |-> "init", name |-> "", old |-> NoArg, new |-> NoArg,
               err |-> NoError, today |-> NoBirthday, out |-> <<>>, pre |-> <<>>]

\* Phone(s), the object dropped again.
NewPhone(s) ==
    /\ last' = Call("Phone", "", NoArg, s, Phone(s).err, NoBirthday, <<Phone(s).value>>)
    /\ UNCHANGED <<data, file>>

\* str(Birthday(s)), the object dropped again.
NewBirthday(s) ==
    /\ last' = Call("Birthday", "", NoArg, s, Birthday(s).err, NoBirthday,
                    IF Birthday(s).err = NoError
                    THEN <<strftime(Birthday(s).value)>> ELSE <<>>)
    /\ UNCHANGED <<data, file>>

\* book.add_record(record) with a record built outside the book.
AddRecord(record) ==
    /\ data' = add_record(data, record)
    /\ last' = Call("add_record", record.name, NoArg, NoArg, NoError, NoBirthday,
                    <<record>>)
    /\ UNCHANGED file

\* add_contact(args, book), as long as the record's list may grow.
AddContact(args) ==
    /\ IF Len(args) < 2 THEN TRUE
       ELSE IF find(data, args[1]) = 0 THEN TRUE
       ELSE Len(data[find(data, args[1])].phones) < MaxPhones
    /\ data' = add_contact(args, data).book
    /\ last' = Call("add_contact", IF Len(args) > 0 THEN args[1] ELSE "", NoArg,
                    IF Len(args) > 1 THEN args[2] ELSE NoArg, NoError, NoBirthday,
                    <<add_contact(args, data).ret>>)
    /\ UNCHANGED file

\* book.delete(name).
Delete(name) ==
    /\ data' = delete(data, name)
    /\ last' = Call("delete", name, NoArg, NoArg, NoError, NoBirthday, <<>>)
    /\ UNCHANGED file

\* book.find(name).add_phone(phone).
AddPhone(name, phone) ==
    /\ find(data, name) # 0
    /\ Len(data[find(data, name)].phones) < MaxPhones
    /\ LET r == add_phone(data[find(data, name)], phone)
       IN  /\ data' = [data EXCEPT ![find(data, name)] = r.rec]
           /\ last' = Call("add_phone", name, NoArg, phone, r.err, NoBirthday, <<>>)
    /\ UNCHANGED file

\* book.find(name).remove_phone(phone).
RemovePhone(name, phone) ==
    /\ find(data, name) # 0
    /\ LET r == remove_phone(data[find(data, name)], phone)
       IN  /\ data' = [data EXCEPT ![find(data, name)] = r.rec]
           /\ last' = Call("remove_phone", name, phone, NoArg, r.err, NoBirthday, <<>>)
    /\ UNCHANGED file

\* book.find(name).edit_phone(old_phone, new_phone).
EditPhone(name, old_phone, new_phone) ==
    /\ find(data, name) # 0
    /\ LET r == edit_phone(data[find(data, name)], old_phone, new_phone)
       IN  /\ data' = [data EXCEPT ![find(data, name)] = r.rec]
           /\ last' = Call("edit_phone", name, old_phone, new_phone, r.err,
                           NoBirthday, <<>>)
    /\ UNCHANGED file

\* book.find(name).add_birthday(birthday).
AddBirthday(name, birthday) ==
    /\ find(data, name) # 0
    /\ LET r == add_birthday(data[find(data, name)], birthday)
       IN  /\ data' = [data EXCEPT ![find(data, name)] = r.rec]
           /\ last' = Call("add_birthday", name, NoArg, birthday, r.err,
                           NoBirthday, <<>>)
    /\ UNCHANGED file

\* book.get_upcoming_birthdays() on the day today.
GetUpcomingBirthdays(today) ==
    /\ LET r == get_upcoming_birthdays(data, today)
       IN  last' = Call("get_upcoming_birthdays", "", NoArg, NoArg, r.err, today, r.out)
    /\ UNCHANGED <<data, file>>

\* save_data(book).
SaveData ==
    /\ file' = save_data(data)
    /\ last' = Call("save_data", "", NoArg, NoArg, NoError, NoBirthday, <<>>)
    /\ UNCHANGED data

\* book = load_data().
LoadData ==
    /\ data' = load_data(file).book
    /\ last' = Call("load_data", "", NoArg, NoArg, load_data(file).err, NoBirthday, <<>>)
    /\ UNCHANGED file

\* The records handed to add_record: fresh, or built as the example of
\* hw-06 builds John's, add_phone called on the record before it is stored.
NewRecords ==
    {Record(n) : n \in Names}
    \cup {add_phone(add_phone(add_phone(Record(n), P1).rec, P2).rec, P1).rec : n \in Names}

\* The argument lists handed to add_contact.
ContactArgs ==
    {<<>>} \cup {<<n>> : n \in Names}
    \cup {<<n, p>> : n \in Names, p \in RecordPhoneInputs \cup {PEmpty}}

\* The phone operations of a book.
Next ==
    \/ \E a \in ContactArgs : AddContact(a)
    \/ AddPhone("Ann", PSuperscript)
    \/ \E s \in PhoneInputs : NewPhone(s)
    \/ \E r \in NewRecords : AddRecord(r)
    \/ \E n \in Names : Delete(n)
    \/ \E n \in Names, p \in RecordPhoneInputs : AddPhone(n, p)
    \/ \E n \in Names, p \in RecordPhoneInputs : RemovePhone(n, p)
    \/ \E n \in Names, o \in RecordPhoneInputs, p \in RecordPhoneInputs : EditPhone(n, o, p)

Spec == Init /\ [][Next]_vars

\* The birthdays of a book and the query on them.
NextBirthdays ==
    \/ \E s \in BirthdayTexts : NewBirthday(s)
    \/ \E n \in Names : AddRecord(Record(n))
    \/ \E n \in Names, b \in BirthdayInputs : AddBirthday(n, b)
    \/ \E t \in TodayInputs : GetUpcomingBirthdays(t)

SpecBirthdays == Init /\ [][NextBirthdays]_vars

\* A book that is changed, saved and loaded: Ann's record takes phones and a
\* birthday, Bob's record stays as it was added.
NextPersist ==
    \/ \E n \in Names : AddRecord(Record(n))
    \/ \E n \in Names : Delete(n)
    \/ \E p \in {P1, P2} : AddPhone("Ann", p)
    \/ \E p \in {P1, P2} : RemovePhone("Ann", p)
    \/ \E o \in {P1, P2}, p \in {P1, P2} : EditPhone("Ann", o, p)
    \/ \E b \in {B_0806, B_Iso} : AddBirthday("Ann", b)
    \/ SaveData
    \/ LoadData

SpecPersist == Init /\ [][NextPersist]_vars

\* ------------------------------------------------------------ claims
\* What the claims speak of, stated apart from the operators above.

\* A string of exactly 10 decimal digits.
TenDecimalDigits(s) == Len(s) = 10 /\ \A i \in 1..Len(s) : s[i] \in DecimalChars

Occurrences(seq, v) == Cardinality({i \in 1..Len(seq) : seq[i] = v})

\* seq without its first element equal to v.
RECURSIVE RemoveFirst(_, _)
RemoveFirst(seq, v) ==
    IF seq = <<>> THEN <<>>
    ELSE IF Head(seq) = v THEN Tail(seq)
    ELSE <<Head(seq)>> \o RemoveFirst(Tail(seq), v)

\* The phones of the record the last call was made on, before and after it.
PhonesBefore == last.pre[KeyIndex(last.pre, last.name)].phones
PhonesAfter == data[KeyIndex(data, last.name)].phones

\* Every record but the one the last call was made on is as it was.
OthersUntouched ==
    /\ Len(data) = Len(last.pre)
    /\ \A i \in 1..Len(data) : data[i].name # last.name => data[i] = last.pre[i]

\* The day of the week by Zeller's congruence: 0 Saturday, 1 Sunday, 2 Monday ..
Zeller(dt) ==
    LET mm == IF dt.m < 3 THEN dt.m + 12 ELSE dt.m
        yy == IF dt.m < 3 THEN dt.y - 1 ELSE dt.y
    IN  (dt.d + ((13 * (mm + 1)) \div 5) + (yy % 100) + ((yy % 100) \div 4)
         + ((yy \div 100) \div 4) + 5 * (yy \div 100)) % 7

ZellerName(dt) ==
    LET h == Zeller(dt)
    IN  CASE h = 0 -> "Saturday" [] h = 1 -> "Sunday" [] h = 2 -> "Monday"
          [] h = 3 -> "Tuesday" [] h = 4 -> "Wednesday" [] h = 5 -> "Thursday"
          [] OTHER -> "Friday"

\* The last call was get_upcoming_birthdays and it returned a list.
UpcomingReturned == last.op = "get_upcoming_birthdays" /\ last.err = NoError

Reported(name) == \E j \in 1..Len(last.out) : last.out[j].name = name

\* The birthday's month and day in the year of the reference date.
Projected(rec) == [rec.birthday EXCEPT !.y = last.today.y]

SameMonthDay(a, b) == a.m = b.m /\ a.d = b.d

\* C1: get_upcoming_birthdays reports a contact if and only if the contact has
\* a birthday whose month and day, projected onto the reference date's year,
\* lie in [referenceDate, referenceDate + 6 days]; a projected date 7 days
\* after the reference date is not reported.
C1_WindowOfSixDays ==
    UpcomingReturned =>
        \A i \in 1..Len(data) :
            Reported(data[i].name) <=>
                /\ data[i].birthday # NoBirthday
                /\ \E k \in 0..6 : AddDays(last.today, k) = Projected(data[i])

\* C2: a contact whose next birthday is exactly 0 or exactly 6 days after the
\* reference date is reported, in any month, the last days of December
\* included, and one whose next birthday is exactly 8 days after it is not.
C2_NextOccurrenceBoundaries ==
    UpcomingReturned =>
        \A i \in 1..Len(data) :
            data[i].birthday # NoBirthday =>
                /\ \A k \in {0, 6} :
                      SameMonthDay(AddDays(last.today, k), data[i].birthday)
                          => Reported(data[i].name)
                /\ SameMonthDay(AddDays(last.today, 8), data[i].birthday)
                          => ~Reported(data[i].name)

\* The date of celebration the claim gives a projected birthday.
RolledOffWeekend(dt) ==
    IF ZellerName(dt) = "Saturday" THEN AddDays(dt, 2)
    ELSE IF ZellerName(dt) = "Sunday" THEN AddDays(dt, 1)
    ELSE dt

\* C3: every reported contact is reported with the Monday two days after a
\* projected birthday that is a Saturday, the Monday one day after one that is
\* a Sunday, and the projected birthday itself from Monday to Friday; no
\* reported date of celebration is a Saturday or a Sunday.
C3_WeekendRoll ==
    UpcomingReturned =>
        \A j \in 1..Len(last.out) :
            LET rec == data[KeyIndex(data, last.out[j].name)]
                day == RolledOffWeekend(Projected(rec))
            IN  /\ last.out[j].date = strftime(day)
                /\ last.out[j].day = ZellerName(day)
                /\ last.out[j].day \notin {"Saturday", "Sunday"}
                /\ ZellerName(Projected(rec)) \in {"Saturday", "Sunday"}
                      => last.out[j].day = "Monday"

\* A call that reported one birthday projected on a Saturday and one
\* projected on a Sunday.
C3_Witness ==
    /\ UpcomingReturned
    /\ \E j \in 1..Len(last.out) :
          ZellerName(Projected(data[KeyIndex(data, last.out[j].name)])) = "Saturday"
    /\ \E j \in 1..Len(last.out) :
          ZellerName(Projected(data[KeyIndex(data, last.out[j].name)])) = "Sunday"

\* C4: Phone(s) fails with a validation error whenever s is not 10 characters
\* long or holds a character that is no decimal digit, and for every string of
\* exactly 10 decimal digits it succeeds with value s.
C4_PhoneValidation ==
    last.op = "Phone" =>
        IF TenDecimalDigits(last.new)
        THEN last.err = NoError /\ last.out = <<last.new>>
        ELSE last.err = "ValueError"

\* C5: edit_phone(old, new) fails with a validation error whenever new is not
\* a valid 10-digit phone, whether a phone equal to old is present or absent.
C5_EditValidatesNew ==
    (last.op = "edit_phone" /\ ~TenDecimalDigits(last.new)) => last.err = "ValueError"

\* C6: for a valid new phone, edit_phone(old, new) on a record holding old
\* leaves the list without its first phone equal to old and with new appended
\* (same length, the other phones in their order); with old absent the list
\* is unchanged.
C6_EditRemoveThenAppend ==
    (last.op = "edit_phone" /\ TenDecimalDigits(last.new)) =>
        /\ last.err = NoError
        /\ OthersUntouched
        /\ IF Occurrences(PhonesBefore, last.old) > 0
           THEN /\ PhonesAfter = Append(RemoveFirst(PhonesBefore, last.old), last.new)
                /\ Len(PhonesAfter) = Len(PhonesBefore)
           ELSE PhonesAfter = PhonesBefore

\* An edit of the first of three phones, the other two differing.
C6_Witness ==
    /\ last.op = "edit_phone" /\ TenDecimalDigits(last.new)
    /\ Len(PhonesBefore) = 3
    /\ PhonesBefore[1] = last.old
    /\ PhonesBefore[2] # PhonesBefore[3]
    /\ last.new # last.old

\* C7: if a phone equal to old is present and new is a valid phone other than
\* old, then after edit_phone(old, new) find_phone(old) returns not-found and
\* find_phone(new) returns a match.
C7_EditThenFind ==
    (/\ last.op = "edit_phone"
     /\ Occurrences(PhonesBefore, last.old) > 0
     /\ TenDecimalDigits(last.new)
     /\ last.new # last.old) =>
        /\ find_phone(PhonesAfter, last.old) = 0
        /\ find_phone(PhonesAfter, last.new) # 0

\* C7, amended: if a phone equal to old is present and new is a valid phone
\* other than old, then after edit_phone(old, new) find_phone(new) returns a
\* match, and find_phone(old) returns not-found when old was held exactly
\* once; held more than once, old is still found.
C7_EditThenFindOnce ==
    (/\ last.op = "edit_phone"
     /\ Occurrences(PhonesBefore, last.old) > 0
     /\ TenDecimalDigits(last.new)
     /\ last.new # last.old) =>
        /\ find_phone(PhonesAfter, last.new) # 0
        /\ PhonesAfter[find_phone(PhonesAfter, last.new)] = last.new
        /\ Occurrences(PhonesBefore, last.old) = 1 => find_phone(PhonesAfter, last.old) = 0
        /\ Occurrences(PhonesBefore, last.old) > 1 => find_phone(PhonesAfter, last.old) # 0

\* An edit of the one phone equal to old, among others.
C7_Witness ==
    /\ last.op = "edit_phone"
    /\ Occurrences(PhonesBefore, last.old) = 1
    /\ Len(PhonesBefore) > 1
    /\ TenDecimalDigits(last.new)
    /\ last.new # last.old

\* C8: remove_phone(value) removes exactly one phone, the first whose value is
\* value, and leaves every other phone, later duplicates of value included, in
\* place and in order; with no such phone it raises nothing and leaves the
\* list unchanged.
C8_RemoveFirstOnly ==
    last.op = "remove_phone" =>
        /\ last.err = NoError
        /\ OthersUntouched
        /\ PhonesAfter = RemoveFirst(PhonesBefore, last.old)
        /\ IF Occurrences(PhonesBefore, last.old) > 0
           THEN /\ Len(PhonesAfter) = Len(PhonesBefore) - 1
                /\ Occurrences(PhonesAfter, last.old)
                      = Occurrences(PhonesBefore, last.old) - 1
           ELSE PhonesAfter = PhonesBefore

\* A removal from a list that held the value twice, another phone between.
C8_Witness ==
    /\ last.op = "remove_phone"
    /\ Occurrences(PhonesBefore, last.old) = 2
    /\ Len(PhonesBefore) = 3
    /\ PhonesBefore[2] # last.old

\* Two directories with the same names, and for each name the same phones in
\* the same order and the same birthday or none.
SameDirectory(a, b) ==
    /\ Keys(a) = Keys(b)
    /\ Len(a) = Cardinality(Keys(a)) /\ Len(b) = Cardinality(Keys(b))
    /\ \A n \in Keys(a) :
          /\ a[KeyIndex(a, n)].phones = b[KeyIndex(b, n)].phones
          /\ a[KeyIndex(a, n)].birthday = b[KeyIndex(b, n)].birthday

\* C9: load_data of the file save_data(D) wrote yields a directory with D's
\* names, phones in order and birthdays, and what a load returns changes with
\* no call but save_data.
C9_RoundTrip ==
    /\ [](last.op = "save_data" =>
             /\ load_data(file).err = NoError
             /\ SameDirectory(load_data(file).book, data))
    /\ [][last'.op # "save_data" => load_data(file').book = load_data(file).book]_vars
    /\ [][last'.op = "load_data" => SameDirectory(data', load_data(file).book)]_vars

\* A load that brought back a saved record with two phones and a birthday
\* after the book in memory had been changed.
C9_Witness ==
    /\ last.op = "load_data"
    /\ last.pre # data
    /\ \E i \in 1..Len(data) :
          /\ Len(data[i].phones) = 2
          /\ data[i].phones[1] # data[i].phones[2]
          /\ data[i].birthday # NoBirthday

\* C10: load_data on a target that does not exist returns an empty directory
\* and no error; it returns a directory that is not empty only of a target a
\* save_data wrote.
C10_LoadMissing ==
    last.op = "load_data" =>
        /\ ~file.exists => (data = <<>> /\ last.err = NoError)
        /\ data # <<>> => (file.exists /\ file = save_data(data))

\* A load with no file, in place of a book that held records.
C10_Witness ==
    /\ last.op = "load_data"
    /\ ~file.exists
    /\ last.pre # <<>>

\* C11: add_record(record) stores record under record's name; a record
\* stored under that name before is replaced entirely, none of its phones or
\* its birthday kept, and every entry under another name is left as it was.
C11_AddRecordReplaces ==
    last.op = "add_record" =>
        LET record == last.out[1]
            at == {i \in 1..Len(data) : data[i].key = record.name}
        IN  /\ Cardinality(at) = 1
            /\ \A i \in at : /\ data[i].name = record.name
                             /\ data[i].phones = record.phones
                             /\ data[i].birthday = record.birthday
            /\ Keys(data) = Keys(last.pre) \cup {record.name}
            /\ Len(data) = Len(last.pre)
                           + (IF record.name \in Keys(last.pre) THEN 0 ELSE 1)
            /\ \A i \in 1..Len(last.pre) :
                  last.pre[i].key # record.name => data[i] = last.pre[i]

\* A fresh record stored over one that held phones and a birthday, beside
\* an entry under another name.
C11_Witness ==
    /\ last.op = "add_record"
    /\ Len(last.pre) = 2
    /\ \E i \in 1..Len(last.pre) :
          /\ last.pre[i].key = last.name
          /\ last.pre[i].phones # <<>>
          /\ last.pre[i].birthday # NoBirthday
    /\ last.out[1].phones = <<>>

\* C12: in every state reached by add_record, delete, add_phone,
\* remove_phone, edit_phone and add_birthday every record is stored under the
\* key equal to its own name, the keys are unique, and no call but one that
\* stores a record anew gives the record under a key another name.
C12_KeyIsName ==
    /\ [](/\ \A i \in 1..Len(data) : data[i].key = data[i].name
          /\ \A i, j \in 1..Len(data) : data[i].key = data[j].key => i = j)
    /\ [][\A k \in Keys(data) \cap Keys(data') :
              last'.op \notin {"add_record", "add_contact", "load_data"}
                  => data'[KeyIndex(data', k)].name = data[KeyIndex(data, k)].name]_vars

\* Two records, one with phones and a birthday, after a phone was edited.
C12_Witness ==
    /\ last.op = "edit_phone"
    /\ Len(data) = 2
    /\ \E i \in 1..Len(data) :
          /\ data[i].key = last.name
          /\ data[i].birthday # NoBirthday
          /\ Len(data[i].phones) = 2
          /\ data[i].phones # last.pre[KeyIndex(last.pre, last.name)].phones

\* C13: delete(name) of an absent name raises nothing and changes nothing;
\* of a present name it removes that entry alone, find(name) then returns
\* not-found, and a second delete(name) leaves the directory as the first did.
C13_DeleteIdempotent ==
    last.op = "delete" =>
        /\ last.err = NoError
        /\ data = SelectSeq(last.pre, LAMBDA e : e.key # last.name)
        /\ last.name \notin Keys(last.pre) => data = last.pre
        /\ find(data, last.name) = 0
        /\ delete(data, last.name) = data

\* The first of two entries deleted, the second one holding phones.
C13_Witness ==
    /\ last.op = "delete"
    /\ Len(last.pre) = 2
    /\ last.pre[1].key = last.name
    /\ last.pre[2].phones # <<>>
    /\ Len(data) = 1

\* The text names a calendar date as day.month.year: three fields of decimal
\* digits between two dots, the numbers those of a day that exists.
CalendarDayMonthYear(s) ==
    LET dots == {i \in 1..Len(s) : s[i] = "."}
    IN  /\ Cardinality(dots) = 2
        /\ \A i \in 1..Len(s) : s[i] \in DecimalChars \cup {"."}
        /\ LET i1 == CHOOSE i \in dots : \A j \in dots : i <= j
               i2 == CHOOSE i \in dots : \A j \in dots : j <= i
           IN  /\ i1 > 1 /\ i2 > i1 + 1 /\ i2 < Len(s)
               /\ ValidDate(IntOf(SubSeq(s, i2 + 1, Len(s))),
                            IntOf(SubSeq(s, i1 + 1, i2 - 1)),
                            IntOf(SubSeq(s, 1, i1 - 1)))

\* C14: for every string the Birthday constructor accepts, the text of the
\* Birthday is the string itself; every string that is no day.month.year
\* calendar date is rejected with a validation error.
C14_BirthdayRoundTrip ==
    last.op = "Birthday" =>
        /\ last.err = NoError => last.out = <<last.new>>
        /\ ~CalendarDayMonthYear(last.new) => last.err = "ValueError"

\* C15: whenever edit_phone(old, new) fails with a validation error the
\* record's phone list is as it was before the call, the phone equal to old
\* still in it.
C15_FailedEditKeepsPhones ==
    (last.op = "edit_phone" /\ last.err = "ValueError") =>
        /\ PhonesAfter = PhonesBefore
        /\ Occurrences(PhonesAfter, last.old) = Occurrences(PhonesBefore, last.old)

\* C16: for every directory whose birthdays the Birthday constructor
\* accepted, 29 February of a leap year among them, and for every reference
\* date get_upcoming_birthdays returns a list and fails with no error.
C16_UpcomingNeverFails ==
    last.op = "get_upcoming_birthdays" => last.err = NoError

\* The names of the book and each contact's phones.
NamesAndPhones(d) == {<<d[i].key, d[i].phones>> : i \in 1..Len(d)}

\* C17: whenever add_contact reports an error the names of the book and every
\* contact's phone list are as before the call, so a failed add creates no
\* contact without a phone.
C17_FailedAddContactChangesNothing ==
    (last.op = "add_contact" /\ last.out = <<InvalidData>>) =>
        NamesAndPhones(data) = NamesAndPhones(last.pre)

\* C18: every phone held by every record is a string of exactly 10 digits,
\* and an add_phone that fails leaves the record's phone list unchanged.
C18_PhonesAreTenDigits ==
    /\ \A i \in 1..Len(data) : \A j \in 1..Len(data[i].phones) :
          TenDecimalDigits(data[i].phones[j])
    /\ (last.op = "add_phone" /\ last.err # NoError) => PhonesAfter = PhonesBefore

\* The contact has a birthday whose projection is one of the days from the
\* reference date to one_week_later.
InWindow(rec) ==
    /\ rec.birthday # NoBirthday
    /\ \E k \in 0..WeekDays : AddDays(last.today, k) = Projected(rec)

\* C19: the result of get_upcoming_birthdays holds exactly one entry for each
\* contact whose birthday is in the window and none for any other contact,
\* contacts without a birthday included, and the entries follow the order of
\* the directory, in which the names were first inserted.
C19_OneEntryInDirectoryOrder ==
    UpcomingReturned =>
        /\ \A i \in 1..Len(data) :
              Cardinality({j \in 1..Len(last.out) : last.out[j].name = data[i].name})
                  = IF InWindow(data[i]) THEN 1 ELSE 0
        /\ \A j, k \in 1..Len(last.out) :
              j < k => KeyIndex(data, last.out[j].name) < KeyIndex(data, last.out[k].name)

\* A result of two entries whose first is celebrated after its second.
C19_Witness ==
    /\ UpcomingReturned
    /\ Len(last.out) = 2
    /\ LET first == celebration_day(Projected(data[KeyIndex(data, last.out[1].name)]))
           second == celebration_day(Projected(data[KeyIndex(data, last.out[2].name)]))
       IN  DateLeq(second, first) /\ second # first

====
